---- MODULE Spec2Model ----
(***************************************************************************)
(* Model of solution_start.py: a batch run of process_data over an input   *)
(* directory (customers.csv, products.csv, transactions/) that loads the   *)
(* three datasets, aggregates per customer, generates output records and   *)
(* saves them as output.csv.                                               *)
(*                                                                         *)
(* Python values: None is the string "None", '' is "".  A dict whose       *)
(* insertion order is observable (customers, customer_data) is a sequence  *)
(* of <<key, ref>> pairs; ref is the index in heap of the inner dict       *)
(* {'loyalty_score', 'purchase_count'}, so that two dicts holding the same *)
(* inner dict object share its ref.                                        *)
(***************************************************************************)
EXTENDS Integers, Sequences, FiniteSets, TLC

VARIABLES fs, module_globals, pc, heap, customers, products, transactions,
          customer_data, output_data, output_file, output_written, error,
          calls

vars == <<fs, module_globals, pc, heap, customers, products, transactions,
          customer_data, output_data, output_file, output_written, error,
          calls>>

\* Bounds of the input universe.
MaxTx == 2
MaxItems == 2

None == "None"
NoError == ""

CustomerIds == {"c1", "c2"}
ProductIds == {"p1", "p2", "p3"}
Categories == {"electronics", "food"}

----------------------------------------------------------------------------
\* The input directory.

\* customers.csv: absent, unreadable as (customer_id, int loyalty_score) rows,
\* or a sequence of rows <<customer_id, loyalty_score>>.
CustomersFiles ==
  { [status |-> "absent", rows |-> <<>>],
    [status |-> "malformed", rows |-> <<>>],
    [status |-> "ok", rows |-> <<>>],
    [status |-> "ok", rows |-> << <<"c1", 10>> >>] }

\* products.csv: absent, lacking a required column, or rows
\* <<product_id, product_category>>.
ProductsFiles ==
  { [status |-> "absent", rows |-> <<>>],
    [status |-> "malformed", rows |-> <<>>],
    [status |-> "ok", rows |-> <<>>],
    [status |-> "ok", rows |-> << <<"p1", "electronics">>, <<"p2", "food">> >>],
    [status |-> "ok", rows |-> << <<"p1", "electronics">>, <<"p2", "electronics">> >>] }

\* The baskets of at most n product ids.
RECURSIVE Baskets(_)
Baskets(n) ==
  IF n = 0 THEN { <<>> }
  ELSE Baskets(n - 1) \cup
       { Append(b, p) : b \in { x \in Baskets(n - 1) : Len(x) = n - 1 }, p \in ProductIds }

\* One line of a transactions file: a JSON object with customer_id and basket,
\* or text json.loads rejects.
Lines(n) ==
  { [json |-> TRUE, customer_id |-> c, basket |-> b] : c \in CustomerIds, b \in Baskets(n) }
  \cup { [json |-> FALSE, customer_id |-> "", basket |-> <<>>] }

\* The concatenated lines of the transaction files: at most k lines holding at
\* most m basket items in total.
RECURSIVE LineLists(_, _)
LineLists(k, m) ==
  IF k = 0 THEN { <<>> }
  ELSE { <<>> } \cup
       UNION { { <<l>> \o rest : rest \in LineLists(k - 1, m - Len(l.basket)) } : l \in Lines(m) }

TransactionsDirs ==
  { [status |-> "absent", lines |-> <<>>] }
  \cup { [status |-> "ok", lines |-> ls] : ls \in LineLists(MaxTx, MaxItems) }

----------------------------------------------------------------------------
\* Dicts with observable insertion order.

DictHas(d, k) == \E i \in DOMAIN d : d[i][1] = k

DictGet(d, k) == d[CHOOSE i \in DOMAIN d : d[i][1] = k][2]

\* dict.get on a parsed transaction: the value of the field, None when absent.
TxGet(t, f) == IF f \in DOMAIN t THEN t[f] ELSE None

\* json.loads of a well-formed line.
JsonLoads(line) == [customer_id |-> line.customer_id, basket |-> line.basket]

RECURSIVE ParseLines(_, _)
ParseLines(lines, i) ==
  IF i > Len(lines) THEN <<>>
  ELSE <<JsonLoads(lines[i])>> \o ParseLines(lines, i + 1)

----------------------------------------------------------------------------
\* The loaders.  Each returns [raised, msg, ...]: raised with the message of
\* the Exception it raises, or the value it returns.

RECURSIVE LoadCustomerRows(_, _, _, _)
LoadCustomerRows(rows, i, d, hp) ==
  IF i > Len(rows) THEN [customers |-> d, heap |-> hp]
  ELSE LET obj == [loyalty_score |-> rows[i][2], purchase_count |-> 0]
           hp2 == Append(hp, obj)
           d2  == IF DictHas(d, rows[i][1])
                  THEN [j \in DOMAIN d |->
                          IF d[j][1] = rows[i][1] THEN <<d[j][1], Len(hp2)>> ELSE d[j]]
                  ELSE Append(d, <<rows[i][1], Len(hp2)>>)
       IN LoadCustomerRows(rows, i + 1, d2, hp2)

load_customers(file, hp) ==
  IF file.status = "absent"
  THEN [raised |-> TRUE, msg |-> "Customers data file not found",
        customers |-> <<>>, heap |-> hp]
  ELSE IF file.status = "malformed"
  THEN [raised |-> TRUE, msg |-> "An error occurred while loading customers data",
        customers |-> <<>>, heap |-> hp]
  ELSE LET r == LoadCustomerRows(file.rows, 1, <<>>, hp)
       IN [raised |-> FALSE, msg |-> NoError, customers |-> r.customers, heap |-> r.heap]

RECURSIVE LoadProductRows(_, _, _)
LoadProductRows(rows, i, d) ==
  IF i > Len(rows) THEN d
  ELSE LoadProductRows(rows, i + 1,
         [p \in DOMAIN d \cup {rows[i][1]} |->
            IF p = rows[i][1] THEN rows[i][2] ELSE d[p]])

load_products(file) ==
  IF file.status = "absent"
  THEN [raised |-> TRUE, msg |-> "Products data file not found", products |-> <<>>]
  ELSE IF file.status = "malformed"
  THEN [raised |-> TRUE, msg |-> "An error occurred while loading products data",
        products |-> <<>>]
  ELSE [raised |-> FALSE, msg |-> NoError, products |-> LoadProductRows(file.rows, 1, <<>>)]

\* A loader that degrades instead of raising: an absent directory yields no
\* transaction and a line json.loads rejects is skipped.
RECURSIVE ParseGoodLines(_, _)
ParseGoodLines(lines, i) ==
  IF i > Len(lines) THEN <<>>
  ELSE (IF lines[i].json THEN <<JsonLoads(lines[i])>> ELSE <<>>) \o ParseGoodLines(lines, i + 1)

load_transactions_lenient(dir) ==
  [raised |-> FALSE, msg |-> NoError,
   transactions |-> IF dir.status = "absent" THEN <<>> ELSE ParseGoodLines(dir.lines, 1)]

load_transactions(dir) ==
  IF dir.status = "absent"
  THEN [raised |-> TRUE, msg |-> "Transactions data directory not found",
        transactions |-> <<>>]
  ELSE IF \E i \in DOMAIN dir.lines : ~dir.lines[i].json
  THEN [raised |-> TRUE, msg |-> "An error occurred while loading transactions data",
        transactions |-> <<>>]
  ELSE [raised |-> FALSE, msg |-> NoError, transactions |-> ParseLines(dir.lines, 1)]

----------------------------------------------------------------------------
\* aggregate_customer_data: customers.copy() is a shallow copy, so customer_data
\* starts as the same <<key, ref>> pairs as customers and shares the inner dicts.

DictCopy(d) == d

RECURSIVE AggregateLoop(_, _, _, _)
AggregateLoop(cd, hp, txs, i) ==
  IF i > Len(txs) THEN [customer_data |-> cd, heap |-> hp]
  ELSE LET customer_id == TxGet(txs[i], "customer_id")
       IN IF DictHas(cd, customer_id)
          THEN AggregateLoop(cd,
                 [hp EXCEPT ![DictGet(cd, customer_id)].purchase_count = @ + 1],
                 txs, i + 1)
          ELSE AggregateLoop(Append(cd, <<customer_id, Len(hp) + 1>>),
                 Append(hp, [loyalty_score |-> 0, purchase_count |-> 1]),
                 txs, i + 1)

aggregate_customer_data(custs, txs, hp) == AggregateLoop(DictCopy(custs), hp, txs, 1)

----------------------------------------------------------------------------
\* generate_output_data.

RECURSIVE Repeat(_, _)
Repeat(rec, n) == IF n <= 0 THEN <<>> ELSE <<rec>> \o Repeat(rec, n - 1)

\* First loop: purchase_count placeholder records per customer, in the
\* insertion order of customer_data.
RECURSIVE Placeholders(_, _, _)
Placeholders(cd, hp, i) ==
  IF i > Len(cd) THEN <<>>
  ELSE Repeat([customer_id |-> cd[i][1],
               loyalty_score |-> hp[cd[i][2]].loyalty_score,
               product_id |-> "",
               product_category |-> "",
               purchase_count |-> 0],
              hp[cd[i][2]].purchase_count)
       \o Placeholders(cd, hp, i + 1)

\* products.get(product_id, {}).get('product_category')
ProductCategory(prods, product_id) ==
  IF product_id \in DOMAIN prods THEN prods[product_id] ELSE None

\* The index of the first record of the customer whose product_id is still '',
\* 0 when there is none.
FirstUnfilled(out, customer_id) ==
  LET S == { j \in DOMAIN out : out[j].customer_id = customer_id /\ out[j].product_id = "" }
  IN IF S = {} THEN 0 ELSE CHOOSE j \in S : \A k \in S : j <= k

\* Second loop: each transaction fills the first unfilled record of its customer
\* with the transaction's own (top-level) product_id.
RECURSIVE FillLoop(_, _, _, _)
FillLoop(out, txs, i, prods) ==
  IF i > Len(txs) THEN out
  ELSE LET customer_id == TxGet(txs[i], "customer_id")
           product_id == TxGet(txs[i], "product_id")
           j == FirstUnfilled(out, customer_id)
       IN IF j = 0 THEN FillLoop(out, txs, i + 1, prods)
          ELSE FillLoop([out EXCEPT ![j].product_id = product_id,
                                    ![j].product_category = ProductCategory(prods, product_id),
                                    ![j].purchase_count = @ + 1],
                        txs, i + 1, prods)

\* The second loop reads the free name transactions, which no scope of the module
\* binds: the lookup goes to the module's globals and raises NameError unless the
\* hosting process has bound the name there.
generate_output_data(cd, prods, hp, globs) ==
  IF ~globs.bound
  THEN [raised |-> TRUE, msg |-> "name 'transactions' is not defined", output_data |-> <<>>]
  ELSE [raised |-> FALSE, msg |-> NoError,
        output_data |-> FillLoop(Placeholders(cd, hp, 1), globs.transactions, 1, prods)]

----------------------------------------------------------------------------
\* save_output_data: csv.DictWriter writes None as the empty field.

CsvField(v) == IF v = None THEN "" ELSE v

CsvRow(rec) ==
  [customer_id |-> CsvField(rec.customer_id),
   loyalty_score |-> rec.loyalty_score,
   product_id |-> CsvField(rec.product_id),
   product_category |-> CsvField(rec.product_category),
   purchase_count |-> rec.purchase_count]

save_output_data(out, writable) ==
  IF ~writable
  THEN [raised |-> TRUE, msg |-> "An error occurred while saving output data", file |-> <<>>]
  ELSE [raised |-> FALSE, msg |-> NoError, file |-> [j \in DOMAIN out |-> CsvRow(out[j])]]

----------------------------------------------------------------------------
\* process_data: one run.  An Exception raised by a step is caught by the
\* except clause, which prints the message and ends the run.

\* The module's globals as the run finds them: the module itself never binds
\* transactions; a host that has bound it holds the loaded transactions there.
ModuleGlobals(dir) ==
  { [bound |-> FALSE, transactions |-> <<>>] }
  \cup IF load_transactions(dir).raised THEN {}
       ELSE { [bound |-> TRUE, transactions |-> load_transactions(dir).transactions] }

Init ==
  /\ fs \in [customers : CustomersFiles, products : ProductsFiles,
             transactions : TransactionsDirs]
  /\ module_globals \in ModuleGlobals(fs.transactions)
  /\ pc = "load_customers"
  /\ heap = <<>>
  /\ customers = <<>>
  /\ products = <<>>
  /\ transactions = <<>>
  /\ customer_data = <<>>
  /\ output_data = <<>>
  /\ output_file = <<>>
  /\ output_written = FALSE
  /\ error = NoError
  /\ calls = <<>>

\* except Exception as e: print(...)
Except(msg) ==
  /\ error' = msg
  /\ pc' = "done"

LoadCustomers ==
  /\ pc = "load_customers"
  /\ calls' = Append(calls, "load_customers")
  /\ LET r == load_customers(fs.customers, heap)
     IN IF r.raised
        THEN Except(r.msg) /\ UNCHANGED <<customers, heap>>
        ELSE /\ customers' = r.customers
             /\ heap' = r.heap
             /\ pc' = "load_products"
             /\ error' = error
  /\ UNCHANGED <<fs, module_globals, products, transactions, customer_data,
                 output_data, output_file, output_written>>

LoadProducts ==
  /\ pc = "load_products"
  /\ calls' = Append(calls, "load_products")
  /\ LET r == load_products(fs.products)
     IN IF r.raised
        THEN Except(r.msg) /\ UNCHANGED products
        ELSE /\ products' = r.products
             /\ pc' = "load_transactions"
             /\ error' = error
  /\ UNCHANGED <<fs, module_globals, heap, customers, transactions, customer_data,
                 output_data, output_file, output_written>>

LoadTransactions ==
  /\ pc = "load_transactions"
  /\ calls' = Append(calls, "load_transactions")
  /\ LET r == load_transactions(fs.transactions)
     IN IF r.raised
        THEN Except(r.msg) /\ UNCHANGED transactions
        ELSE /\ transactions' = r.transactions
             /\ pc' = "aggregate"
             /\ error' = error
  /\ UNCHANGED <<fs, module_globals, heap, customers, products, customer_data,
                 output_data, output_file, output_written>>

Aggregate ==
  /\ pc = "aggregate"
  /\ calls' = Append(calls, "aggregate_customer_data")
  /\ LET r == aggregate_customer_data(customers, transactions, heap)
     IN /\ customer_data' = r.customer_data
        /\ heap' = r.heap
  /\ pc' = "generate"
  /\ UNCHANGED <<fs, module_globals, customers, products, transactions,
                 output_data, output_file, output_written, error>>

GenerateOutput ==
  /\ pc = "generate"
  /\ calls' = Append(calls, "generate_output_data")
  /\ LET r == generate_output_data(customer_data, products, heap, module_globals)
     IN IF r.raised
        THEN Except(r.msg) /\ UNCHANGED output_data
        ELSE /\ output_data' = r.output_data
             /\ pc' = "save"
             /\ error' = error
  /\ UNCHANGED <<fs, module_globals, heap, customers, products, transactions,
                 customer_data, output_file, output_written>>

SaveOutput ==
  /\ pc = "save"
  /\ calls' = Append(calls, "save_output_data")
  /\ \E writable \in BOOLEAN :
       LET r == save_output_data(output_data, writable)
       IN IF r.raised
          THEN Except(r.msg) /\ UNCHANGED <<output_file, output_written>>
          ELSE /\ output_file' = r.file
               /\ output_written' = TRUE
               /\ pc' = "done"
               /\ error' = error
  /\ UNCHANGED <<fs, module_globals, heap, customers, products, transactions,
                 customer_data, output_data>>

Next ==
  \/ LoadCustomers
  \/ LoadProducts
  \/ LoadTransactions
  \/ Aggregate
  \/ GenerateOutput
  \/ SaveOutput

Spec == Init /\ [][Next]_vars

----------------------------------------------------------------------------
\* Vocabulary of the properties.

Called(f) == \E i \in DOMAIN calls : calls[i] = f

\* All three inputs are present and every row and line of them parses.
InputsWellFormed ==
  /\ fs.customers.status = "ok"
  /\ fs.products.status = "ok"
  /\ fs.transactions.status = "ok"
  /\ \A i \in DOMAIN fs.transactions.lines : fs.transactions.lines[i].json

\* The transactions directory is absent or one of its lines fails to parse.
TransactionsUnreadable ==
  \/ fs.transactions.status = "absent"
  \/ \E i \in DOMAIN fs.transactions.lines : ~fs.transactions.lines[i].json

\* The output could not be persisted: a failure of the file system, not of the
\* inputs.
SaveFailed == error = "An error occurred while saving output data"

KnownCustomer(c) == \E i \in DOMAIN fs.customers.rows : fs.customers.rows[i][1] = c

\* The product id is a key of the products mapping.
Resolves(p) == \E i \in DOMAIN fs.products.rows : fs.products.rows[i][1] = p

\* The category the products mapping gives the product id (the last row wins).
CategoryOf(p) ==
  LET S == { i \in DOMAIN fs.products.rows : fs.products.rows[i][1] = p }
  IN fs.products.rows[CHOOSE i \in S : \A j \in S : j <= i][2]

\* The basket line items <<line, position>> of the customer's transactions.
ItemsOf(c) ==
  UNION { { <<i, j>> : j \in DOMAIN fs.transactions.lines[i].basket } :
            i \in { n \in DOMAIN fs.transactions.lines :
                      fs.transactions.lines[n].customer_id = c } }

ItemProduct(it) == fs.transactions.lines[it[1]].basket[it[2]]

\* The number of the customer's line items whose product resolves to category k.
ItemsInCategory(c, k) ==
  Cardinality({ it \in ItemsOf(c) : Resolves(ItemProduct(it)) /\ CategoryOf(ItemProduct(it)) = k })

\* The number of the customer's line items whose product resolves at all.
ResolvedItems(c) == Cardinality({ it \in ItemsOf(c) : Resolves(ItemProduct(it)) })

\* The sum of purchase_count over the output records of the customer.
RECURSIVE SumCount(_, _, _)
SumCount(out, c, i) ==
  IF i > Len(out) THEN 0
  ELSE (IF out[i].customer_id = c THEN out[i].purchase_count ELSE 0) + SumCount(out, c, i + 1)

RecordsOf(c, k) ==
  { j \in DOMAIN output_data :
      output_data[j].customer_id = c /\ output_data[j].product_category = k }

----------------------------------------------------------------------------
C2_SumPerCustomer ==
  (pc = "done" /\ InputsWellFormed /\ ~SaveFailed) =>
    \A c \in CustomerIds : SumCount(output_data, c, 1) = ResolvedItems(c)

\* C3: when such a run has ended, every customer_id that is no key of customers
\* and has a transaction with a resolving basket item has output rows, each with
\* loyalty_score 0.
C3_UnknownCustomerKept ==
  (pc = "done" /\ InputsWellFormed /\ ~SaveFailed) =>
    \A c \in CustomerIds :
      (~KnownCustomer(c) /\ ResolvedItems(c) >= 1) =>
        /\ \E j \in DOMAIN output_data : output_data[j].customer_id = c
        /\ \A j \in DOMAIN output_data :
             output_data[j].customer_id = c => output_data[j].loyalty_score = 0

C5_EmptyTransactions ==
  (pc = "done" /\ InputsWellFormed /\ fs.transactions.lines = <<>> /\ ~SaveFailed) =>
    /\ error = NoError
    /\ output_written
    /\ output_file = <<>>

\* C6: when a run over well-formed inputs has ended, the output holds exactly one
\* record per (customer_id, category) pair seen in the transactions, and no two
\* records share customer_id and category.
C6_OneRecordPerKey ==
  (pc = "done" /\ InputsWellFormed /\ ~SaveFailed) =>
    /\ \A c \in CustomerIds, k \in Categories :
         ItemsInCategory(c, k) >= 1 => Cardinality(RecordsOf(c, k)) = 1
    /\ \A i, j \in DOMAIN output_data :
         (/\ output_data[i].customer_id = output_data[j].customer_id
          /\ output_data[i].product_category = output_data[j].product_category) => i = j

\* C7: when customers.csv or products.csv is absent (and nothing else is wrong
\* with the inputs), the loader yields an empty mapping and the run goes on to
\* aggregation.
C7_MissingFileDegrades ==
  (/\ pc = "done"
   /\ fs.customers.status \in {"absent", "ok"}
   /\ fs.products.status \in {"absent", "ok"}
   /\ "absent" \in {fs.customers.status, fs.products.status}
   /\ ~TransactionsUnreadable) =>
    /\ Called("aggregate_customer_data")
    /\ fs.customers.status = "absent" => customers = <<>>

\* C8: when the transactions directory is absent or a transaction line fails to
\* parse, neither aggregation nor save_output_data runs, no output file is
\* written, and the run ends with an error message reported.
C8_TransactionsAbort ==
  TransactionsUnreadable =>
    /\ ~Called("aggregate_customer_data")
    /\ ~Called("save_output_data")
    /\ ~output_written
    /\ pc = "done" => error # NoError

C8_Witness ==
  /\ pc = "done"
  /\ Called("load_transactions")
  /\ fs.transactions.status = "ok"
  /\ Len(fs.transactions.lines) = 2
  /\ fs.transactions.lines[1].json
  /\ ~fs.transactions.lines[2].json
  /\ error = "An error occurred while loading transactions data"

\* C9: after aggregate_customer_data every customer loaded by load_customers
\* still has the loyalty_score of its row and purchase_count 0.
C9_CustomersUnchanged ==
  Called("aggregate_customer_data") =>
    \A i \in DOMAIN customers :
      /\ heap[customers[i][2]].purchase_count = 0
      /\ \E r \in DOMAIN fs.customers.rows :
           /\ fs.customers.rows[r][1] = customers[i][1]
           /\ fs.customers.rows[r][2] = heap[customers[i][2]].loyalty_score

\* C10: a run over well-formed inputs (the output device not failing) ends having
\* called load, aggregate, generate and save in that order, with the output
\* written and no error reported; every run ends that way or with an error
\* reported and no output written.
Completed ==
  /\ calls = <<"load_customers", "load_products", "load_transactions",
               "aggregate_customer_data", "generate_output_data", "save_output_data">>
  /\ output_written
  /\ error = NoError

C10_RunCompletes ==
  pc = "done" =>
    /\ (InputsWellFormed /\ ~SaveFailed) => Completed
    /\ Completed \/ (error # NoError /\ ~output_written)

====
